---- MODULE Spec2Model ----
(***************************************************************************)
(* Model of tohex.py: image.data (raw RGB triplets) is read into memory,   *)
(* one bit per pixel (first channel = 255) is packed, least significant    *)
(* bit first, into 64-bit words, and each word is written to data.txt as   *)
(* '0x' + 16 uppercase hex digits, the words separated by ', '.            *)
(*                                                                         *)
(* Representation.  Text (str) is a sequence of one-character strings.     *)
(* The Python int `bits` is unbounded and never negative; it is held as    *)
(* the set of the positions of the one bits of its binary expansion, so    *)
(* that no width is imposed on it that Python does not impose.             *)
(***************************************************************************)
EXTENDS Integers, Sequences, FiniteSets

\* ---------------------------------------------------------------- constants
Channels == 3          \* bytes per pixel
FullIntensity == 255   \* the byte value that yields a one bit
WordBits == 64         \* bits packed into one word
PadWidth == 16         \* minimum number of hex digits ('{:016X}')

\* ------------------------------------------------------------------- bounds
MaxLen == 197          \* longest image.data, in bytes (65 pixels + 2 bytes)
Period == 2            \* period, in bytes, of the periodic inputs

ByteVals == {0, 254, 255}

\* -------------------------------------------------------------- input files
\* image.data with the byte pattern `base` repeated.
PeriodicInput(len, base) ==
    [k \in 1..len |-> base[((k - 1) % Period) + 1]]

\* image.data with FullIntensity in the first channel of pixel `hot` alone:
\* every other byte is 0 when hot is even; when hot is odd the other first
\* channels are 254 and all other bytes (other channels, trailing bytes) 255.
SparseInput(len, hot) ==
    LET bg == IF hot % 2 = 0 THEN 0 ELSE 254
        fill == IF hot % 2 = 0 THEN 0 ELSE 255
    IN  [k \in 1..len |->
            IF (k - 1) % Channels = 0
            THEN (IF (k - 1) \div Channels = hot THEN FullIntensity ELSE bg)
            ELSE fill]

Inputs ==
    { PeriodicInput(len, base) :
         len \in 0..MaxLen, base \in [1..Period -> ByteVals] }
    \cup
    { SparseInput(t[1], t[2]) :
         t \in { u \in (0..MaxLen) \X (0..(MaxLen \div Channels)) :
                 u[2] < u[1] \div Channels } }

\* The content data.txt may have before the run.
OldText == <<"o", "l", "d">>

\* ----------------------------------------------------------------- integers
Max(S) == CHOOSE m \in S : \A n \in S : n <= m

Pow2(n) == IF n = 0 THEN 1 ELSE IF n = 1 THEN 2 ELSE IF n = 2 THEN 4 ELSE 8

\* value << n, for value in {0, 1}
Shl(value, n) == IF value = 1 THEN {n} ELSE {}

\* a | b
BitOr(a, b) == a \cup b

\* ---------------------------------------------------------------- formatting
HexDigits ==
    <<"0", "1", "2", "3", "4", "5", "6", "7",
      "8", "9", "A", "B", "C", "D", "E", "F">>

\* The k-th hex digit of b, k = 0 the least significant.
Nibble(b, k) ==
      (IF 4 * k     \in b THEN 1 ELSE 0)
    + (IF 4 * k + 1 \in b THEN 2 ELSE 0)
    + (IF 4 * k + 2 \in b THEN 4 ELSE 0)
    + (IF 4 * k + 3 \in b THEN 8 ELSE 0)

\* Number of hex digits of b without padding ('{:X}'); zero has one digit.
NumHexDigits(b) == IF b = {} THEN 1 ELSE (Max(b) \div 4) + 1

\* '{:X}'.format(b): the padding left out
Format016X_NoPad(b) ==
    LET n == NumHexDigits(b)
    IN  [p \in 1..n |-> HexDigits[Nibble(b, n - p) + 1]]

\* '{:016X}'.format(b): uppercase hex, most significant digit first,
\* zero-padded on the left to at least PadWidth digits, never truncated.
Format016X(b) ==
    LET d == NumHexDigits(b)
        n == IF d < PadWidth THEN PadWidth ELSE d
    IN  [p \in 1..n |-> HexDigits[Nibble(b, n - p) + 1]]

\* hexStr = comma + '0x' + '{:016X}'.format(bits) with a separator appended
HexStr_Trailing(cm, b) == <<"0", "x">> \o Format016X(b) \o <<",", " ">>

\* hexStr = comma + '0x' + '{:016X}'.format(bits)
HexStr(cm, b) == cm \o <<"0", "x">> \o Format016X(b)

\* ------------------------------------------------------------ loop pieces
\* numPixels rounded up
NumPixels_Ceil(d) == (Len(d) + Channels - 1) \div Channels

\* numPixels = len(data) // 3
NumPixels(d) == Len(d) \div Channels

\* value = 1 if data[3 * i] >= 254
PixelValue_Threshold(d, idx) == IF d[Channels * idx + 1] >= 254 THEN 1 ELSE 0

\* value = 1 if any channel of the pixel is 255
PixelValue_AnyChannel(d, idx) ==
    IF \E c \in 1..Channels : d[Channels * idx + c] = FullIntensity THEN 1 ELSE 0

\* value = 1 if data[3 * i] == 255 else 0   (data is indexed from 0 in Python)
PixelValue(d, idx) == IF d[Channels * idx + 1] = FullIntensity THEN 1 ELSE 0

\* flush on a full word only
FlushCond_NoLast(nb, idx, np) == nb = WordBits

\* flush on the last pixel only
FlushCond_OnlyLast(nb, idx, np) == idx = np - 1

\* if numBits == 64 or i == numPixels - 1   (numBits already incremented)
FlushCond(nb, idx, np) == nb = WordBits \/ idx = np - 1

\* -------------------------------------------------------------------- state
VARIABLES
    pc,         \* position in the script
    err,        \* the call that raised, "none" while none has
    image,      \* content of image.data
    outExists,  \* whether data.txt exists
    outFile,    \* content of data.txt
    rawImage,   \* input handle:  "none", "open", "closed"
    hexList,    \* output handle: "none", "open", "closed"
    data,       \* bytes read
    comma, numBits, bits, numPixels,
    i,          \* index of the next pixel of range(numPixels)
    reads,      \* number of completed rawImage.read() calls
    writes      \* number of completed hexList.write() calls

vars == <<pc, err, image, outExists, outFile, rawImage, hexList, data,
          comma, numBits, bits, numPixels, i, reads, writes>>

files == <<image, outExists, outFile>>
locals == <<data, comma, numBits, bits, numPixels, i>>

Init ==
    /\ pc = "open_in"
    /\ err = "none"
    /\ image \in Inputs
    /\ \/ outExists = FALSE /\ outFile = <<>>
       \/ outExists = TRUE /\ outFile = OldText
    /\ rawImage = "none"
    /\ hexList = "none"
    /\ data = <<>>
    /\ comma = <<>>
    /\ numBits = 0
    /\ bits = {}
    /\ numPixels = 0
    /\ i = 0
    /\ reads = 0
    /\ writes = 0

\* An uncaught exception ends the script where it is raised.
Raise(at) ==
    /\ pc' = "failed"
    /\ err' = at

\* rawImage = open('image.data', 'rb')
OpenInput ==
    /\ pc = "open_in"
    /\ pc' = "read"
    /\ rawImage' = "open"
    /\ UNCHANGED <<err, files, hexList, locals, reads, writes>>

OpenInputFail ==
    /\ pc = "open_in"
    /\ Raise("open_in")
    /\ UNCHANGED <<files, rawImage, hexList, locals, reads, writes>>

\* data = rawImage.read()
ReadInput ==
    /\ pc = "read"
    /\ pc' = "close_in"
    /\ data' = image
    /\ reads' = reads + 1
    /\ UNCHANGED <<err, files, rawImage, hexList, comma, numBits, bits,
                   numPixels, i, writes>>

\* a failed read with data.txt already opened for writing
ReadInputFail_OutputFirst ==
    /\ pc = "read"
    /\ Raise("read")
    /\ outExists' = TRUE
    /\ outFile' = <<>>
    /\ hexList' = "open"
    /\ UNCHANGED <<image, rawImage, locals, reads, writes>>

ReadInputFail ==
    /\ pc = "read"
    /\ Raise("read")
    /\ UNCHANGED <<files, rawImage, hexList, locals, reads, writes>>

\* rawImage.close()
CloseInput ==
    /\ pc = "close_in"
    /\ pc' = "open_out"
    /\ rawImage' = "closed"
    /\ UNCHANGED <<err, files, hexList, locals, reads, writes>>

\* hexList = open('data.txt', 'w'), then comma = '', numBits = 0, bits = 0,
\* numPixels = len(data) // 3
OpenOutput ==
    /\ pc = "open_out"
    /\ pc' = "loop"
    /\ hexList' = "open"
    /\ outExists' = TRUE
    /\ outFile' = <<>>
    /\ comma' = <<>>
    /\ numBits' = 0
    /\ bits' = {}
    /\ numPixels' = NumPixels(data)
    /\ i' = 0
    /\ UNCHANGED <<err, image, rawImage, data, reads, writes>>

OpenOutputFail ==
    /\ pc = "open_out"
    /\ Raise("open_out")
    /\ UNCHANGED <<files, rawImage, hexList, locals, reads, writes>>

\* one iteration of the loop whose flush leaves bits as it is
LoopIter_NoReset ==
    /\ pc = "loop"
    /\ i < numPixels
    /\ LET value == PixelValue(data, i)
           b == BitOr(bits, Shl(value, numBits))
           nb == numBits + 1
       IN  IF FlushCond(nb, i, numPixels)
           THEN /\ outFile' = outFile \o HexStr(comma, b)
                /\ writes' = writes + 1
                /\ bits' = b
                /\ numBits' = 0
                /\ comma' = <<",", " ">>
           ELSE /\ bits' = b
                /\ numBits' = nb
                /\ UNCHANGED <<outFile, writes, comma>>
    /\ i' = i + 1
    /\ UNCHANGED <<pc, err, image, outExists, rawImage, hexList, data,
                   numPixels, reads>>

\* one iteration of `for i in range(numPixels)`
LoopIter ==
    /\ pc = "loop"
    /\ i < numPixels
    /\ LET value == PixelValue(data, i)
           b == BitOr(bits, Shl(value, numBits))
           nb == numBits + 1
       IN  IF FlushCond(nb, i, numPixels)
           THEN /\ outFile' = outFile \o HexStr(comma, b)
                /\ writes' = writes + 1
                /\ bits' = {}
                /\ numBits' = 0
                /\ comma' = <<",", " ">>
           ELSE /\ bits' = b
                /\ numBits' = nb
                /\ UNCHANGED <<outFile, writes, comma>>
    /\ i' = i + 1
    /\ UNCHANGED <<pc, err, image, outExists, rawImage, hexList, data,
                   numPixels, reads>>

\* an iteration whose hexList.write(hexStr) raises
LoopIterWriteFail ==
    /\ pc = "loop"
    /\ i < numPixels
    /\ LET value == PixelValue(data, i)
           b == BitOr(bits, Shl(value, numBits))
           nb == numBits + 1
       IN  /\ FlushCond(nb, i, numPixels)
           /\ bits' = b
           /\ numBits' = nb
    /\ Raise("write")
    /\ UNCHANGED <<files, rawImage, hexList, data, comma, numPixels, i,
                   reads, writes>>

\* range(numPixels) is exhausted
LoopExit ==
    /\ pc = "loop"
    /\ i >= numPixels
    /\ pc' = "close_out"
    /\ UNCHANGED <<err, files, rawImage, hexList, locals, reads, writes>>

\* hexList.close()
CloseOutput ==
    /\ pc = "close_out"
    /\ pc' = "done"
    /\ hexList' = "closed"
    /\ UNCHANGED <<err, files, rawImage, locals, reads, writes>>

Next ==
    \/ OpenInput
    \/ OpenInputFail
    \/ ReadInput
    \/ ReadInputFail
    \/ CloseInput
    \/ OpenOutput
    \/ OpenOutputFail
    \/ LoopIter
    \/ LoopIterWriteFail
    \/ LoopExit
    \/ CloseOutput

Spec == Init /\ [][Next]_vars

\* ------------------------------------------------------- the whole loop
\* The body of the loop (lines 13-21) as a function of the locals
\* st = [comma, numBits, bits, out], out being the text written so far,
\* for pixel idx of the bytes d, the write succeeding.
LoopBody(d, st, idx) ==
    LET b == BitOr(st.bits, Shl(PixelValue(d, idx), st.numBits))
        nb == st.numBits + 1
    IN  IF FlushCond(nb, idx, NumPixels(d))
        THEN [comma |-> <<",", " ">>, numBits |-> 0, bits |-> {},
              out |-> st.out \o HexStr(st.comma, b)]
        ELSE [st EXCEPT !.numBits = nb, !.bits = b]

\* The body run for idx = lo, lo + 1, ..., hi - 1 in this order.  The range
\* is halved, and the left half's result tested (numBits is never negative),
\* only so that TLC evaluates it at once and the evaluation stays shallow.
RECURSIVE LoopRange(_, _, _, _)
LoopRange(d, st, lo, hi) ==
    IF lo >= hi THEN st
    ELSE IF hi = lo + 1 THEN LoopBody(d, st, lo)
    ELSE LET mid == (lo + hi) \div 2
             left == LoopRange(d, st, lo, mid)
         IN  IF left.numBits >= 0 THEN LoopRange(d, left, mid, hi) ELSE left

\* Lines 8-21 run to the end on the bytes d: the text written.
Pack(d) ==
    LoopRange(d, [comma |-> <<>>, numBits |-> 0, bits |-> {}, out |-> <<>>],
              0, NumPixels(d)).out

\* ------------------------------------------------- reading the output text
\* The value of a hex digit; 16 for any other character.
HexVal(c) ==
    IF \E v \in 0..15 : HexDigits[v + 1] = c
    THEN CHOOSE v \in 0..15 : HexDigits[v + 1] = c
    ELSE 16

\* The text split at every ', '; the empty text holds no word.
RECURSIVE SplitFrom(_, _, _)
SplitFrom(text, k, cur) ==
    IF k > Len(text)
    THEN <<cur>>
    ELSE IF text[k] = "," /\ k < Len(text) /\ text[k + 1] = " "
         THEN <<cur>> \o SplitFrom(text, k + 2, <<>>)
         ELSE SplitFrom(text, k + 1, Append(cur, text[k]))

SplitWords(text) == IF text = <<>> THEN <<>> ELSE SplitFrom(text, 1, <<>>)

\* Bit b of the number a word denotes, read from its digits (b = 0 the least
\* significant bit, held by the last digit).
BitOfWord(w, b) == (HexVal(w[Len(w) - (b \div 4)]) \div Pow2(b % 4)) % 2

\* '0x' followed by exactly 16 characters of [0-9A-F]
WellFormedWord(w) ==
    /\ Len(w) = 18
    /\ w[1] = "0"
    /\ w[2] = "x"
    /\ \A k \in 3..18 : HexVal(w[k]) < 16

CeilDiv(a, b) == (a + b - 1) \div b

\* What the claims call numPixels and the words due, from the input file.
PixelCount == Len(image) \div 3
WordsDue == CeilDiv(PixelCount, 64)
IsHot(p) == image[3 * p + 1] = 255

\* ------------------------------------------------------------------ claims

\* C1: after a completed run, for every pixel i < floor(len/3), bit (i mod 64)
\* of word floor(i/64) of the output is 1 iff the byte at offset 3*i is 255.
C1_BitsMatchPixels ==
    pc = "done" =>
        LET ws == SplitWords(outFile)
        IN  \A p \in 0..(PixelCount - 1) :
               /\ (p \div 64) + 1 \in DOMAIN ws
               /\ (BitOfWord(ws[(p \div 64) + 1], p % 64) = 1) <=> IsHot(p)

C1_Witness ==
    /\ pc = "done"
    /\ PixelCount = 65
    /\ IsHot(63)
    /\ image[1] = 254
    /\ image[193] = 254
    /\ BitOfWord(SplitWords(outFile)[1], 63) = 1
    /\ BitOfWord(SplitWords(outFile)[1], 0) = 0
    /\ BitOfWord(SplitWords(outFile)[2], 0) = 0

\* C2: a completed run writes ceil(numPixels/64) words, numPixels being
\* floor(len/3): none (the empty text) for 0, 1 or 2 bytes, and no extra
\* empty word when numPixels is a multiple of 64.
C2_WordCount ==
    pc = "done" =>
        /\ Len(SplitWords(outFile)) = WordsDue
        /\ writes = WordsDue
        /\ numPixels = PixelCount
        /\ (PixelCount = 0 => outFile = <<>>)

C2_Witness ==
    /\ pc = "done"
    /\ PixelCount = 64
    /\ Len(image) = 194
    /\ Len(SplitWords(outFile)) = 1

\* C3: every word in the output is '0x' and exactly 16 uppercase hex digits,
\* the accumulator never holding a bit at position 64 or above.
C3_WordFormat ==
    /\ bits \subseteq 0..63
    /\ LET ws == SplitWords(outFile)
       IN  hexList # "none" =>
              \A k \in DOMAIN ws : WellFormedWord(ws[k])

C3_Witness ==
    /\ writes = 2
    /\ outFile[3] = "F"
    /\ Len(outFile) = 38

\* C4: when numPixels is not a multiple of 64 the last pixel still flushes,
\* and the last word has every bit at position >= numPixels mod 64 clear;
\* 65 pixels of which only pixel 0 is 255 give 0x...01, 0x...00.
C4_Example ==
    <<"0","x","0","0","0","0","0","0","0","0","0","0","0","0","0","0","0","1",
      ",", " ",
      "0","x","0","0","0","0","0","0","0","0","0","0","0","0","0","0","0","0">>

C4_PartialLastWord ==
    (pc = "done" /\ PixelCount % 64 # 0) =>
        LET ws == SplitWords(outFile)
        IN  /\ Len(ws) = (PixelCount \div 64) + 1
            /\ \A b \in (PixelCount % 64)..63 : BitOfWord(ws[Len(ws)], b) = 0
            /\ (PixelCount = 65 /\ \A p \in 0..64 : (IsHot(p) <=> p = 0))
                  => outFile = C4_Example

C4_Witness ==
    /\ pc = "done"
    /\ PixelCount = 65
    /\ \A p \in 0..64 : (IsHot(p) <=> p = 0)
    /\ outFile = C4_Example

\* C5: the output of a completed run is its words joined by ', ': the
\* separator stands between consecutive words only, never first nor last.
C5_Separators ==
    pc = "done" =>
        LET ws == SplitWords(outFile)
        IN  /\ Len(ws) = WordsDue
            /\ \A k \in DOMAIN ws :
                  /\ ws[k] # <<>>
                  /\ \A j \in DOMAIN ws[k] : ws[k][j] \notin {",", " "}
            /\ Len(outFile) = IF WordsDue = 0 THEN 0 ELSE 20 * WordsDue - 2

C5_Witness ==
    /\ pc = "done"
    /\ writes = 2
    /\ outFile[19] = ","
    /\ outFile[20] = " "
    /\ outFile[21] = "0"
    /\ Len(outFile) = 38

\* C6: the output depends only on numPixels and on which pixels have first
\* byte 255: it is the output for the canonical input with the same pixel
\* count and the same such pixels (so any two inputs agreeing on these give
\* the same text), and the output for the input cut to its whole triplets.
Canon(d) ==
    [k \in 1..(3 * (Len(d) \div 3)) |->
        IF (k - 1) % 3 = 0 /\ d[k] = 255 THEN 255 ELSE 0]

C6_DependsOnlyOnPredicate ==
    pc = "done" =>
        /\ outFile = Pack(Canon(image))
        /\ outFile = Pack(SubSeq(image, 1, 3 * PixelCount))

C6_Witness ==
    /\ pc = "done"
    /\ Len(image) = 197
    /\ image[1] = 254
    /\ image[2] = 255
    /\ image[197] = 255
    /\ IsHot(3)
    /\ Canon(image) # image

\* C7 as stated: no write while the scan is in progress, and one write of
\* the complete text.
C7_Original ==
    /\ (writes > 0 => i >= numPixels)
    /\ ((pc = "done" /\ PixelCount > 0) => writes = 1)

\* C7 as amended: the input is read once, in full, and closed before the
\* output is touched; the output is written during the scan, one write per
\* word, at the iteration that completes the word.
C7_IncrementalWrites ==
    /\ reads <= 1
    /\ (hexList # "none" => reads = 1 /\ data = image /\ rawImage = "closed")
    /\ (writes > 0 => hexList # "none")
    /\ (pc = "loop" =>
          writes = IF i >= numPixels THEN WordsDue ELSE i \div 64)
    /\ (pc \in {"close_out", "done"} => writes = WordsDue)
    /\ (hexList # "none" => Len(SplitWords(outFile)) = writes)

C7_Witness ==
    /\ pc = "loop"
    /\ writes = 1
    /\ i = 64
    /\ i < numPixels
    /\ Len(outFile) = 18

\* C8: in every terminal state, every handle that was opened is closed.
C8_HandlesClosed ==
    pc \in {"done", "failed"} => (rawImage # "open" /\ hexList # "open")

\* C9: at the start of iteration i, numBits = i mod 64 and bits has no bit at
\* position >= numBits; the iteration flushes iff (i+1) mod 64 = 0 or
\* i = numPixels - 1, and a flush leaves bits = 0 and numBits = 0.
C9_Step ==
    (pc = "loop" /\ i < numPixels) =>
        /\ numBits = i % 64
        /\ bits \subseteq 0..(numBits - 1)
        /\ IF (i + 1) % 64 = 0 \/ i = numPixels - 1
           THEN \/ writes' = writes + 1 /\ bits' = {} /\ numBits' = 0
                \/ err' = "write" /\ writes' = writes
           ELSE /\ writes' = writes
                /\ err' = "none"
                /\ numBits' = numBits + 1

C9_AccumulatorLifecycle == [][C9_Step]_vars

C9_Witness ==
    /\ pc = "loop"
    /\ i = 64
    /\ numPixels = 65
    /\ writes = 1
    /\ outFile[18] = "5"
    /\ bits = {}
    /\ numBits = 0

\* C10: when opening or reading the input fails, the run ends before the
\* output is opened, and the output is as it was; once the input is read and
\* the output opened, the output exists and is empty even with no pixel.
C10_InputFailureLeavesOutput ==
    /\ (err \in {"open_in", "read"} =>
          /\ pc = "failed"
          /\ hexList = "none"
          /\ writes = 0
          /\ \/ outExists /\ outFile = OldText
             \/ ~outExists /\ outFile = <<>>)
    /\ (pc \in {"loop", "close_out", "done"} =>
          /\ reads = 1
          /\ outExists
          /\ (PixelCount = 0 => outFile = <<>>))

C10_Witness ==
    /\ pc = "failed"
    /\ err = "read"
    /\ rawImage = "open"
    /\ outExists
    /\ outFile = OldText

====
